---- MODULE Spec2Model ----
(***************************************************************************)
(* Model of EpochsStore (features/epochs/store): the two raw-record slots, *)
(* the fetch watermark, the two handlers that call the epochs gateway, the *)
(* polling switch and the two reactions.                                   *)
(*                                                                         *)
(* JavaScript values.  A value of type `number | undefined` is a record    *)
(* [tag, val] with tag "num", "undefined" or "nan"; block heights and      *)
(* timestamps, which are always numbers, are plain integers.               *)
(*                                                                         *)
(* Object identity.  The store assigns `result.epochs` by reference        *)
(* (lines 100 and 118), and the gateway keeps the result it resolved as    *)
(* its `result` snapshot.  At any time the array behind the snapshot is    *)
(* therefore the array held by the slot whose request resolved last, and   *)
(* queryResult names that slot instead of holding a copy: a write through  *)
(* the snapshot is a write to that slot's array.                           *)
(*                                                                         *)
(* Scheduling.  Every handler body up to its await, every continuation     *)
(* after it and every reaction evaluation is one atomic step (the          *)
(* single-threaded cooperative model of section 5).  A started reaction    *)
(* may be evaluated at any time.                                           *)
(***************************************************************************)
EXTENDS Integers, Sequences, FiniteSets, TLC

VARIABLES
    blockHeight,               \* networkInfo.store.blockHeight
    currentEpoch,              \* networkInfo.store.currentEpoch
    isFetching,                \* networkInfo.store.isFetching
    latestBlocks,              \* blocks.store.latestBlocks
    browsedEpochsRawData,      \* content of the browsed slot
    latestEpochsRawData,       \* content of the latest slot
    lastFetchedAtBlockHeight,  \* the fetch watermark
    isRunning,                 \* reaction -> started?
    inflight,                  \* gateway requests not yet resolved, oldest first
    queryResult,               \* which array getEpochsInRangeQuery.result.epochs is
    hasBeenExecutedAtLeastOnce,\* getEpochsInRangeQuery.hasBeenExecutedAtLeastOnce
    fetchesAtHeight,           \* history: fetches the reaction triggered since
                               \* blockHeight last changed (saturates at 2)
    requestOrder,              \* history, kept where the environment asks for it:
                               \* overtaken[j] when a request of the same handler
                               \* that started after inflight[j] has stored its
                               \* result, and stale, the handlers whose slot holds
                               \* the result of a request that was overtaken
    queryId,                   \* navigation.store.query.id
    searchByIdTriggered,       \* the id searchById was last triggered with
    searchHasBeenExecuted,     \* search.api.searchByIdQuery.hasBeenExecutedAtLeastOnce
    isSearching,               \* search.store.isSearching
    transactionSearchResult    \* search.store.transactionSearchResult

vars == <<blockHeight, currentEpoch, isFetching, latestBlocks,
          browsedEpochsRawData, latestEpochsRawData, lastFetchedAtBlockHeight,
          isRunning, inflight, queryResult, hasBeenExecutedAtLeastOnce,
          fetchesAtHeight, requestOrder, queryId, searchByIdTriggered,
          searchHasBeenExecuted, isSearching, transactionSearchResult>>

providerVars == <<blockHeight, currentEpoch, isFetching, latestBlocks>>
slotVars == <<browsedEpochsRawData, latestEpochsRawData, queryResult>>
queryFlags == <<hasBeenExecutedAtLeastOnce>>
searchVars == <<queryId, searchByIdTriggered, searchHasBeenExecuted, isSearching,
                transactionSearchResult>>

-----------------------------------------------------------------------------
(* Bounds of the explored inputs. *)

MaxHeight == 2
MaxEpoch == 5
MaxPage == 2
MaxPerPage == 2
MaxInFlight == 2
MaxId == 2

(* The window fetchLatestEpochs looks back over: upper - 4. *)
LatestWindow == 4

-----------------------------------------------------------------------------
(* JavaScript values *)

Num(n) == [tag |-> "num", val |-> n]
Undefined == [tag |-> "undefined", val |-> 0]
NaN == [tag |-> "nan", val |-> 0]

isNumber(v) == v.tag \in {"num", "nan"}

Max(a, b) == IF a >= b THEN a ELSE b

\* v - w without the clamp at 0.
MinusUnclamped(v, w) == IF v.tag = "num" THEN Num(v.val - w) ELSE NaN

\* Math.max(0, v - w) for a JavaScript value v: undefined - w is NaN, and
\* Math.max of NaN is NaN.
MathMaxZeroMinus(v, w) == IF v.tag = "num" THEN Num(Max(0, v.val - w)) ELSE NaN

-----------------------------------------------------------------------------
(* Epoch records and gateway results *)

Epoch(n, t) == [isNull |-> FALSE, epochNumber |-> n, lastBlockTime |-> t]
NullEntry == [isNull |-> TRUE, epochNumber |-> 0, lastBlockTime |-> 0]

isDefined(e) == ~e.isNull

Block(t) == [createdAt |-> t]

NullResult == [isNull |-> TRUE, epochs |-> <<>>]
Result(es) == [isNull |-> FALSE, epochs |-> es]

\* The data the providers and the gateway deliver in the explored runs.
SomeEpochs ==
    { <<>>,
      <<Epoch(5, 100)>>,
      <<Epoch(5, 200), Epoch(4, 100)>>,
      <<NullEntry, Epoch(4, 100)>>,
      <<Epoch(5, 100), NullEntry>> }
SomeBlocks == { <<>>, <<Block(100)>>, <<Block(200), Block(100)>> }

Remove(s, i) == [j \in 1..(Len(s) - 1) |-> IF j < i THEN s[j] ELSE s[j + 1]]
Last(s) == s[Len(s)]

-----------------------------------------------------------------------------
(* The epochs gateway (epochsApi.getEpochsInRangeQuery) *)

\* isExecuting: a request is in flight.
isExecuting == inflight /= <<>>

\* result?.epochs of the gateway's snapshot; <<>> when there is no result.
resultEpochs ==
    CASE queryResult = "latest" -> latestEpochsRawData
      [] queryResult = "browsed" -> browsedEpochsRawData
      [] OTHER -> <<>>

\* execute(variables), called from `handler` with the handler's `params`.
execute(handler, params, variables) ==
    /\ inflight' = Append(inflight,
          [handler |-> handler, params |-> params, variables |-> variables])
    /\ requestOrder' = [requestOrder EXCEPT !.overtaken = Append(@, FALSE)]
    /\ UNCHANGED queryFlags

\* The request at position i resolves with result: it is no longer executing
\* and the gateway has been executed at least once.
resolve(i, result) ==
    /\ inflight' = Remove(inflight, i)
    /\ hasBeenExecutedAtLeastOnce' = TRUE

fetchEpochsInRange(handler, params, variables) ==
    execute(handler, params, variables)

NoParams == [page |-> 0, perPage |-> 0]

\* A string, as a JavaScript value, and the transactions a search may find.
Str(x) == [tag |-> "string", val |-> x]
NoTransaction == [isNull |-> TRUE, id |-> 0]
Transaction(x) == [isNull |-> FALSE, id |-> x]

-----------------------------------------------------------------------------
(* Initial state: the store as constructed, the providers before any data. *)

latestEpochsReactions ==
    {"fetchLatestEpochsOnBlockHeightChange", "syncLatestEpochWithLatestBlockDate"}

Init ==
    /\ blockHeight = 0
    /\ currentEpoch = Undefined
    /\ isFetching = FALSE
    /\ latestBlocks = <<>>
    /\ browsedEpochsRawData = <<>>
    /\ latestEpochsRawData = <<>>
    /\ lastFetchedAtBlockHeight = 0
    /\ isRunning = [r \in latestEpochsReactions |-> FALSE]
    /\ inflight = <<>>
    /\ queryResult = "none"
    /\ hasBeenExecutedAtLeastOnce = FALSE
    /\ fetchesAtHeight = 0
    /\ requestOrder = [overtaken |-> <<>>, stale |-> {}]
    /\ queryId = Undefined
    /\ searchByIdTriggered = Undefined
    /\ searchHasBeenExecuted = FALSE
    /\ isSearching = FALSE
    /\ transactionSearchResult = NoTransaction

-----------------------------------------------------------------------------
(* Action handlers *)

\* fetchLatestEpochs up to its await: lines 94-97.
fetchLatestEpochsRequest ==
    LET upper == currentEpoch
        lower == MathMaxZeroMinus(upper, LatestWindow)
    IN  fetchEpochsInRange("fetchLatestEpochs", NoParams,
                           [lower |-> lower, upper |-> upper])

\* The action fetchLatestEpochs triggered from outside the store.
fetchLatestEpochs(E) ==
    /\ Len(inflight) < E.maxInFlight
    /\ fetchLatestEpochsRequest
    /\ UNCHANGED <<searchVars, providerVars, slotVars, lastFetchedAtBlockHeight, isRunning,
                   fetchesAtHeight>>

\* fetchLatestEpochs after its await, merging the result into the slot.
fetchLatestEpochsResolvedMerging(i, result) ==
    /\ i \in 1..Len(inflight)
    /\ inflight[i].handler = "fetchLatestEpochs"
    /\ resolve(i, result)
    /\ IF ~result.isNull
       THEN /\ latestEpochsRawData' =
                  result.epochs \o SubSeq(latestEpochsRawData, Len(result.epochs) + 1,
                                          Len(latestEpochsRawData))
            /\ queryResult' = "latest"
            /\ UNCHANGED browsedEpochsRawData
       ELSE UNCHANGED slotVars
    /\ UNCHANGED <<searchVars, providerVars, lastFetchedAtBlockHeight, isRunning,
                   fetchesAtHeight>>
\* fetchLatestEpochs after its await, with a sequence guard: the result of a
\* request that a later one has overtaken is dropped.
fetchLatestEpochsResolvedInOrder(i, result) ==
    /\ i \in 1..Len(inflight)
    /\ inflight[i].handler = "fetchLatestEpochs"
    /\ resolve(i, result)
    /\ IF ~result.isNull /\ ~requestOrder.overtaken[i]
       THEN /\ latestEpochsRawData' = result.epochs
            /\ queryResult' = "latest"
            /\ UNCHANGED browsedEpochsRawData
       ELSE UNCHANGED slotVars
    /\ UNCHANGED <<searchVars, providerVars, lastFetchedAtBlockHeight, isRunning,
                   fetchesAtHeight>>

\* fetchLatestEpochs after its await, for the request at position i resolved
\* with result: lines 98-102.
fetchLatestEpochsResolved(i, result) ==
    /\ i \in 1..Len(inflight)
    /\ inflight[i].handler = "fetchLatestEpochs"
    /\ resolve(i, result)
    /\ IF ~result.isNull
       THEN /\ latestEpochsRawData' = result.epochs
            /\ queryResult' = "latest"
            /\ UNCHANGED browsedEpochsRawData
       ELSE UNCHANGED slotVars
    /\ UNCHANGED <<searchVars, providerVars, lastFetchedAtBlockHeight, isRunning,
                   fetchesAtHeight>>

\* browseEpochs with the lower bound clamped at 0.
browseEpochsClamped(E) ==
    /\ Len(inflight) < E.maxInFlight
    /\ \E page \in E.pages, perPage \in E.perPages :
          LET upper == page * perPage
          IN  fetchEpochsInRange("browseEpochs",
                                 [page |-> page, perPage |-> perPage],
                                 [lower |-> Num(Max(0, upper - perPage)),
                                  upper |-> Num(upper)])
    /\ UNCHANGED <<searchVars, providerVars, slotVars, lastFetchedAtBlockHeight, isRunning,
                   fetchesAtHeight>>

\* browseEpochs up to its await: lines 111-115.
browseEpochs(E) ==
    /\ Len(inflight) < E.maxInFlight
    /\ \E page \in E.pages, perPage \in E.perPages :
          LET upper == page * perPage
          IN  fetchEpochsInRange("browseEpochs",
                                 [page |-> page, perPage |-> perPage],
                                 [lower |-> Num(upper - perPage),
                                  upper |-> Num(upper)])
    /\ UNCHANGED <<searchVars, providerVars, slotVars, lastFetchedAtBlockHeight, isRunning,
                   fetchesAtHeight>>

\* browseEpochs after its await, storing result's epochs without the null test.
browseEpochsResolvedUnguarded(i, result) ==
    /\ i \in 1..Len(inflight)
    /\ inflight[i].handler = "browseEpochs"
    /\ resolve(i, result)
    /\ browsedEpochsRawData' = result.epochs
    /\ queryResult' = IF result.isNull THEN queryResult ELSE "browsed"
    /\ UNCHANGED latestEpochsRawData
    /\ UNCHANGED <<searchVars, providerVars, lastFetchedAtBlockHeight, isRunning,
                   fetchesAtHeight>>

\* browseEpochs after its await: lines 116-120.
browseEpochsResolved(i, result) ==
    /\ i \in 1..Len(inflight)
    /\ inflight[i].handler = "browseEpochs"
    /\ resolve(i, result)
    /\ IF ~result.isNull
       THEN /\ browsedEpochsRawData' = result.epochs
            /\ queryResult' = "browsed"
            /\ UNCHANGED latestEpochsRawData
       ELSE UNCHANGED slotVars
    /\ UNCHANGED <<searchVars, providerVars, lastFetchedAtBlockHeight, isRunning,
                   fetchesAtHeight>>

\* Store.startReactions / stopReactions: start or stop each given reaction.
startReactions(reactions) ==
    isRunning' = [r \in DOMAIN isRunning |-> IF r \in reactions THEN TRUE ELSE isRunning[r]]

stopReactions(reactions) ==
    isRunning' = [r \in DOMAIN isRunning |-> IF r \in reactions THEN FALSE ELSE isRunning[r]]

\* startPollingLatestEpochs starting the fetch reaction alone.
startPollingFetchReactionOnly ==
    /\ startReactions({"fetchLatestEpochsOnBlockHeightChange"})
    /\ UNCHANGED <<searchVars, providerVars, slotVars, lastFetchedAtBlockHeight,
                   inflight, requestOrder, queryFlags, fetchesAtHeight>>

startPollingLatestEpochs ==
    /\ startReactions(latestEpochsReactions)
    /\ UNCHANGED <<searchVars, providerVars, slotVars, lastFetchedAtBlockHeight,
                   inflight, requestOrder, queryFlags, fetchesAtHeight>>
\* stopPollingLatestEpochs that also forgets the height of the last fetch.
stopPollingResettingWatermark ==
    /\ stopReactions(latestEpochsReactions)
    /\ lastFetchedAtBlockHeight' = 0
    /\ UNCHANGED <<searchVars, providerVars, slotVars, inflight, requestOrder,
                   queryFlags, fetchesAtHeight>>
\* stopPollingLatestEpochs that also cancels the requests in flight.
stopPollingCancellingRequests ==
    /\ stopReactions(latestEpochsReactions)
    /\ inflight' = <<>>
    /\ requestOrder' = [requestOrder EXCEPT !.overtaken = <<>>]
    /\ UNCHANGED <<searchVars, providerVars, slotVars, lastFetchedAtBlockHeight,
                   queryFlags, fetchesAtHeight>>

stopPollingLatestEpochs ==
    /\ stopReactions(latestEpochsReactions)
    /\ UNCHANGED <<searchVars, providerVars, slotVars, lastFetchedAtBlockHeight,
                   inflight, requestOrder, queryFlags, fetchesAtHeight>>

-----------------------------------------------------------------------------
(* Computed getters *)

\* The snapshot of the network-info store the transformer is given.
networkInfoStore ==
    [blockHeight |-> blockHeight, currentEpoch |-> currentEpoch, isFetching |-> isFetching]

\* epochOverviewTransformer: the overview of one epoch record, keeping its
\* epoch number and its last-block time.
epochOverviewTransformer(e, store) ==
    [number |-> e.epochNumber, lastBlockAt |-> e.lastBlockTime]

\* transformEpochs without the filter.
transformEpochsUnfiltered(epochs) ==
    [j \in 1..Len(epochs) |-> epochOverviewTransformer(epochs[j], networkInfoStore)]

\* transformEpochs: lines 194-202.
transformEpochs(epochs) ==
    LET defined == SelectSeq(epochs, isDefined)
    IN  [j \in 1..Len(defined) |-> epochOverviewTransformer(defined[j], networkInfoStore)]

\* The getters browsedEpochs and latestEpochs: lines 68-78.
browsedEpochs == transformEpochs(browsedEpochsRawData)
latestEpochs == transformEpochs(latestEpochsRawData)

\* isExecutingTheFirstTime of the gateway: executing, and never executed before.
isExecutingTheFirstTime == isExecuting /\ ~hasBeenExecutedAtLeastOnce

\* The getter with "and" in place of "or".
isLoadingOnlyDuringFirstExecution ==
    ~hasBeenExecutedAtLeastOnce /\ isExecutingTheFirstTime

\* The getter isLoadingLatestEpochsFirstTime: lines 80-86.
isLoadingLatestEpochsFirstTime ==
    ~hasBeenExecutedAtLeastOnce \/ isExecutingTheFirstTime

-----------------------------------------------------------------------------
(* Reactions *)

\* The skip condition without the watermark test.
skipsFetchIgnoringWatermark ==
    \/ ~isNumber(currentEpoch)
    \/ isExecuting
    \/ isFetching

\* The skip condition without the isExecuting test.
skipsFetchIgnoringExecuting ==
    \/ ~isNumber(currentEpoch)
    \/ isFetching
    \/ lastFetchedAtBlockHeight = blockHeight
\* The skip condition with a watermark of 0 read as "nothing fetched yet".
skipsFetchUnlessWatermarkZero ==
    \/ ~isNumber(currentEpoch)
    \/ isExecuting
    \/ isFetching
    \/ (lastFetchedAtBlockHeight = blockHeight /\ lastFetchedAtBlockHeight /= 0)
\* The skip condition that lets a fetch through only when blockHeight is
\* above the watermark.
skipsFetchUnlessHeightGrew ==
    \/ ~isNumber(currentEpoch)
    \/ isExecuting
    \/ isFetching
    \/ lastFetchedAtBlockHeight >= blockHeight

\* The skip condition of fetchLatestEpochsOnBlockHeightChange: lines 149-154.
skipsFetch ==
    \/ ~isNumber(currentEpoch)
    \/ isExecuting
    \/ isFetching
    \/ lastFetchedAtBlockHeight = blockHeight

\* The reaction with the watermark left for the fetch's completion to write.
fetchLatestEpochsOnBlockHeightChangeLateWatermark(E) ==
    /\ isRunning["fetchLatestEpochsOnBlockHeightChange"]
    /\ IF skipsFetch
       THEN UNCHANGED vars
       ELSE /\ Len(inflight) < E.maxInFlight
            /\ fetchLatestEpochsRequest
            /\ fetchesAtHeight' = IF fetchesAtHeight < 2 THEN fetchesAtHeight + 1 ELSE 2
            /\ UNCHANGED <<searchVars, providerVars, slotVars, isRunning, lastFetchedAtBlockHeight>>

fetchLatestEpochsOnBlockHeightChange(E) ==
    /\ isRunning["fetchLatestEpochsOnBlockHeightChange"]
    /\ IF skipsFetch
       THEN UNCHANGED vars
       ELSE /\ Len(inflight) < E.maxInFlight
            /\ lastFetchedAtBlockHeight' = blockHeight
            /\ fetchLatestEpochsRequest
            /\ fetchesAtHeight' = IF fetchesAtHeight < 2 THEN fetchesAtHeight + 1 ELSE 2
            /\ UNCHANGED <<searchVars, providerVars, slotVars, isRunning>>
\* The array with the lastBlockTime of every entry set to t.
patchedEveryEntry(epochs, t) ==
    [j \in 1..Len(epochs) |-> [epochs[j] EXCEPT !.lastBlockTime = t]]

\* The array the snapshot shares with a slot, with its first entry's
\* lastBlockTime set to t.
patched(epochs, t) == [epochs EXCEPT ![1].lastBlockTime = t]

syncLatestEpochWithLatestBlockDate ==
    /\ isRunning["syncLatestEpochWithLatestBlockDate"]
    /\ LET latestBlock == IF Len(latestBlocks) > 0 THEN <<latestBlocks[1]>> ELSE <<>>
           epochs == resultEpochs
           currentEpochRecord ==
               IF Len(epochs) > 0 /\ isDefined(epochs[1]) THEN <<epochs[1]>> ELSE <<>>
       IN  IF latestBlock = <<>> \/ currentEpochRecord = <<>>
           THEN UNCHANGED vars
           ELSE LET lastBlockTime == latestBlock[1].createdAt
                    currentEpochLastBlockTime == currentEpochRecord[1].lastBlockTime
                IN  IF lastBlockTime /= currentEpochLastBlockTime
                    THEN /\ IF queryResult = "latest"
                            THEN /\ latestEpochsRawData' = patched(latestEpochsRawData, lastBlockTime)
                                 /\ UNCHANGED browsedEpochsRawData
                            ELSE /\ browsedEpochsRawData' = patched(browsedEpochsRawData, lastBlockTime)
                                 /\ UNCHANGED latestEpochsRawData
                         /\ UNCHANGED <<searchVars, providerVars, queryResult, lastFetchedAtBlockHeight,
                                        isRunning, inflight, requestOrder, queryFlags,
                                        fetchesAtHeight>>
                    ELSE UNCHANGED vars

-----------------------------------------------------------------------------
(* The collaborators *)

\* The network-info provider publishes a new snapshot.
networkInfoUpdate(E) ==
    /\ \E h \in E.heights, e \in E.epochs, f \in E.fetching :
          /\ blockHeight' = h
          /\ currentEpoch' = e
          /\ isFetching' = f
          /\ fetchesAtHeight' = IF h = blockHeight THEN fetchesAtHeight ELSE 0
    /\ UNCHANGED <<searchVars, latestBlocks, slotVars, lastFetchedAtBlockHeight,
                   isRunning, inflight, requestOrder, queryFlags>>

\* The blocks provider publishes a new list of latest blocks.
blocksUpdate(E) ==
    /\ \E bs \in E.blocks : latestBlocks' = bs
    /\ UNCHANGED <<searchVars, blockHeight, currentEpoch, isFetching, slotVars,
                   lastFetchedAtBlockHeight, isRunning, inflight, requestOrder,
                   queryFlags, fetchesAtHeight>>

\* History: once request i has stored a result, the requests of the same
\* handler that started before it and are still in flight are overtaken.
overtake(i) ==
    [j \in 1..Len(inflight) |->
        requestOrder.overtaken[j] \/ (j < i /\ inflight[j].handler = inflight[i].handler)]

\* History: the handlers whose slot holds the result of an overtaken request,
\* once request i has stored a result.
staleAfter(i) ==
    IF requestOrder.overtaken[i]
    THEN requestOrder.stale \cup {inflight[i].handler}
    ELSE requestOrder.stale \ {inflight[i].handler}

\* The gateway resolves one request in flight, with a result or with null.
gatewayResolves(E) ==
    \E i \in 1..Len(inflight), result \in E.results :
        /\ \/ fetchLatestEpochsResolved(i, result)
           \/ browseEpochsResolved(i, result)
        /\ requestOrder' =
              IF E.orderHistory /\ ~result.isNull
              THEN [overtaken |-> Remove(overtake(i), i), stale |-> staleAfter(i)]
              ELSE [requestOrder EXCEPT !.overtaken = Remove(@, i)]

-----------------------------------------------------------------------------
(* Specifications *)

NextIn(E) ==
    \/ fetchLatestEpochs(E)
    \/ browseEpochs(E)
    \/ startPollingLatestEpochs
    \/ stopPollingLatestEpochs
    \/ fetchLatestEpochsOnBlockHeightChange(E)
    \/ syncLatestEpochWithLatestBlockDate
    \/ networkInfoUpdate(E)
    \/ blocksUpdate(E)
    \/ gatewayResolves(E)

\* Polling: all block heights, few data.
PollingEnv ==
    [heights |-> 0..MaxHeight,
     epochs |-> {Undefined, Num(MaxEpoch)},
     fetching |-> BOOLEAN,
     blocks |-> {<<>>, <<Block(200)>>},
     results |-> {NullResult, Result(<<Epoch(5, 100)>>)},
     pages |-> {1},
     perPages |-> {1},
     maxInFlight |-> MaxInFlight,
     orderHistory |-> FALSE]

\* Data: all results and block lists, one block-height change.
DataEnv ==
    [heights |-> {0, 1},
     epochs |-> {Num(MaxEpoch)},
     fetching |-> {FALSE},
     blocks |-> SomeBlocks,
     results |-> {NullResult} \cup {Result(es) : es \in SomeEpochs},
     pages |-> {1},
     perPages |-> {1},
     maxInFlight |-> MaxInFlight,
     orderHistory |-> FALSE]

\* Ranges: all epochs, pages and page sizes, one request at a time.
RangeEnv ==
    [heights |-> {0, 1},
     epochs |-> {Undefined} \cup {Num(n) : n \in 0..MaxEpoch},
     fetching |-> {FALSE},
     blocks |-> {<<>>},
     results |-> {NullResult, Result(<<Epoch(5, 100)>>)},
     pages |-> 0..MaxPage,
     perPages |-> 1..MaxPerPage,
     maxInFlight |-> 1,
     orderHistory |-> FALSE]

\* Order: requests of one handler overlapping, with the order in which they
\* started and resolved recorded.
OrderEnv ==
    [heights |-> {0, 1},
     epochs |-> {Num(MaxEpoch)},
     fetching |-> {FALSE},
     blocks |-> {<<>>, <<Block(200)>>},
     results |-> {NullResult, Result(<<Epoch(5, 100)>>),
                  Result(<<Epoch(5, 200), Epoch(4, 100)>>)},
     pages |-> {1},
     perPages |-> {1},
     maxInFlight |-> MaxInFlight,
     orderHistory |-> TRUE]

Spec == Init /\ [][NextIn(PollingEnv)]_vars
SpecData == Init /\ [][NextIn(DataEnv)]_vars
SpecRange == Init /\ [][NextIn(RangeEnv)]_vars
SpecOrder == Init /\ [][NextIn(OrderEnv)]_vars

\* Liveness: one block-height change, the provider's flags, overlapping
\* requests.
LiveEnv ==
    [heights |-> {0, 1},
     epochs |-> {Undefined, Num(MaxEpoch)},
     fetching |-> BOOLEAN,
     blocks |-> {<<>>, <<Block(200)>>},
     results |-> {NullResult, Result(<<Epoch(5, 100)>>)},
     pages |-> {1},
     perPages |-> {1},
     maxInFlight |-> MaxInFlight,
     orderHistory |-> FALSE]

\* The gateway resolves the request that has been in flight longest.
resolvesOldest(E) ==
    /\ gatewayResolves(E)
    /\ inflight' = Tail(inflight)

\* The runs in which the reaction is evaluated again whenever a value it
\* observed has changed (an evaluation that triggers a fetch is not put off
\* forever when it is possible again and again) and every request in flight
\* resolves.
SpecLive ==
    /\ Init
    /\ [][NextIn(LiveEnv)]_vars
    /\ SF_vars(fetchLatestEpochsOnBlockHeightChange(LiveEnv))
    /\ WF_vars(resolvesOldest(LiveEnv))

-----------------------------------------------------------------------------
(* The transaction search view (TransactionSearchResult) *)

epochsVars ==
    <<providerVars, slotVars, lastFetchedAtBlockHeight, isRunning, inflight,
      requestOrder, queryFlags, fetchesAtHeight>>

isString(v) == v.tag = "string"

\* A query parameter given more than once: an array of strings.
StrArray == [tag |-> "array", val |-> 0]

\* The values of navigation.store.query.id and of the search result.
SomeQueryIds == {Undefined, StrArray} \cup {Str(x) : x \in 1..MaxId}
SomeTransactions == {NoTransaction} \cup {Transaction(x) : x \in 1..MaxId}

\* The navigation store's query changes.
navigationUpdate ==
    /\ \E id \in SomeQueryIds : queryId' = id
    /\ UNCHANGED <<epochsVars, searchByIdTriggered, searchHasBeenExecuted, isSearching,
                   transactionSearchResult>>

\* The observable effect: lines 20-26.
searchEffect ==
    /\ LET id == queryId
       IN  IF isString(id)
           THEN searchByIdTriggered' = id
           ELSE UNCHANGED searchByIdTriggered
    /\ UNCHANGED <<epochsVars, queryId, searchHasBeenExecuted, isSearching,
                   transactionSearchResult>>

\* The search feature's observable state changes.
searchStoreUpdate ==
    /\ \E executed \in BOOLEAN, searching \in BOOLEAN, result \in SomeTransactions :
          /\ searchHasBeenExecuted' = executed
          /\ isSearching' = searching
          /\ transactionSearchResult' = result
    /\ UNCHANGED <<epochsVars, queryId, searchByIdTriggered>>

\* The rendering that shows a stored result before looking at the flags.
renderedResultFirst ==
    IF ~transactionSearchResult.isNull
    THEN "TransactionSummary"
    ELSE IF ~searchHasBeenExecuted \/ isSearching
         THEN "LoadingSpinner"
         ELSE "NoSearchResult"

\* What the observer renders: lines 30-64.
rendered ==
    IF ~searchHasBeenExecuted \/ isSearching
    THEN "LoadingSpinner"
    ELSE IF ~transactionSearchResult.isNull
         THEN "TransactionSummary"
         ELSE "NoSearchResult"

NextSearch ==
    \/ navigationUpdate
    \/ searchEffect
    \/ searchStoreUpdate

SpecSearch == Init /\ [][NextSearch]_vars

-----------------------------------------------------------------------------
(* Properties *)

fetchReaction == "fetchLatestEpochsOnBlockHeightChange"
syncReaction == "syncLatestEpochWithLatestBlockDate"

\* A request of fetchLatestEpochs for the current epoch.
IsLatestRequest(req) == req.handler = "fetchLatestEpochs"

\* C1: while blockHeight stays at a value, the reaction triggers at most one
\* fetch for it, however often it is evaluated and whatever happens to that
\* fetch or to the polling switch in between.
C1_AtMostOneFetchPerHeight == fetchesAtHeight <= 1

\* The reaction is evaluated again at an already fetched height, after the
\* fetch it triggered has resolved and with nothing else holding it back.
C1_Witness ==
    /\ fetchesAtHeight = 1
    /\ isRunning[fetchReaction]
    /\ lastFetchedAtBlockHeight = blockHeight
    /\ blockHeight > 0
    /\ inflight = <<>>
    /\ hasBeenExecutedAtLeastOnce
    /\ isNumber(currentEpoch)
    /\ ~isFetching

\* What an evaluation of the reaction that triggers a fetch does: one new
\* fetchLatestEpochs request, and the watermark at blockHeight in that step.
TriggersOneFetch ==
    /\ fetchLatestEpochsOnBlockHeightChange(PollingEnv)
    /\ lastFetchedAtBlockHeight' = blockHeight
    /\ Len(inflight') = Len(inflight) + 1
    /\ IsLatestRequest(Last(inflight'))
    /\ SubSeq(inflight', 1, Len(inflight)) = inflight

\* C2 as stated: blockHeight has changed away from the height of the last
\* fetch and no fetch is in flight, so the next evaluation of the reaction
\* triggers exactly one fetch and sets the watermark.
C2_Original ==
    (/\ isRunning[fetchReaction]
     /\ blockHeight /= lastFetchedAtBlockHeight
     /\ inflight = <<>>)
        => ENABLED TriggersOneFetch

\* C2, amended: blockHeight differs from the watermark, no fetch is in
\* flight, currentEpoch is a number and the network-info provider is not
\* fetching; then the evaluation triggers exactly one fetch and the
\* watermark is blockHeight in the same step.
C2_FetchOnChange ==
    (/\ isRunning[fetchReaction]
     /\ blockHeight /= lastFetchedAtBlockHeight
     /\ inflight = <<>>
     /\ isNumber(currentEpoch)
     /\ ~isFetching)
        => ENABLED TriggersOneFetch

\* The fetch for a second height is in flight and the watermark is already
\* at that height.
C2_Witness ==
    /\ lastFetchedAtBlockHeight = blockHeight
    /\ blockHeight = 2
    /\ fetchesAtHeight = 1
    /\ hasBeenExecutedAtLeastOnce
    /\ Len(inflight) = 1
    /\ IsLatestRequest(inflight[1])

\* The steps of the browse path and of the latest path.
BrowseRequestStep ==
    /\ Len(inflight') = Len(inflight) + 1
    /\ Last(inflight').handler = "browseEpochs"
BrowseResolvedStep ==
    \E i \in 1..Len(inflight), result \in DataEnv.results : browseEpochsResolved(i, result)
LatestResolvedStep ==
    \E i \in 1..Len(inflight), result \in DataEnv.results : fetchLatestEpochsResolved(i, result)

\* C3: a browseEpochs request or completion leaves the content of the latest
\* slot unchanged, and a fetchLatestEpochs completion or a patch by
\* syncLatestEpochWithLatestBlockDate leaves the content of the browsed slot
\* unchanged.
C3_SlotsIndependent ==
    [][ /\ (BrowseRequestStep \/ BrowseResolvedStep)
            => latestEpochsRawData' = latestEpochsRawData
        /\ (LatestResolvedStep \/ syncLatestEpochWithLatestBlockDate)
            => browsedEpochsRawData' = browsedEpochsRawData ]_vars

\* C4: when syncLatestEpochWithLatestBlockDate runs with a latest block and a
\* first entry in the latest slot, that entry's lastBlockTime is afterwards
\* the createdAt of latestBlocks[0].
C4_LatestEntrySynced ==
    [][ (/\ syncLatestEpochWithLatestBlockDate
         /\ Len(latestBlocks) > 0
         /\ Len(latestEpochsRawData) > 0
         /\ isDefined(latestEpochsRawData[1]))
            => latestEpochsRawData'[1].lastBlockTime = latestBlocks[1].createdAt ]_vars

\* C5: a request that resolves with null leaves both slots and the
\* watermark as they were and issues no further request: the only change is
\* that the request is no longer in flight.
C5_NullLeavesState ==
    [][ \A i \in 1..Len(inflight) :
            (fetchLatestEpochsResolved(i, NullResult) \/ browseEpochsResolved(i, NullResult))
                => /\ browsedEpochsRawData' = browsedEpochsRawData
                   /\ latestEpochsRawData' = latestEpochsRawData
                   /\ lastFetchedAtBlockHeight' = lastFetchedAtBlockHeight
                   /\ Len(inflight') = Len(inflight) - 1 ]_vars

\* Only null has ever come back, after a fetch the reaction triggered: the
\* slots are still empty, the watermark is where the reaction put it.
C5_Witness ==
    /\ hasBeenExecutedAtLeastOnce
    /\ queryResult = "none"
    /\ inflight = <<>>
    /\ browsedEpochsRawData = <<>>
    /\ latestEpochsRawData = <<>>
    /\ lastFetchedAtBlockHeight = 1

\* A step in which the gateway is called exactly once: one request is added
\* to those in flight and the others stay.
OneNewRequest ==
    /\ Len(inflight') = Len(inflight) + 1
    /\ SubSeq(inflight', 1, Len(inflight)) = inflight

C7_BrowseWindow ==
    [][ (/\ Len(inflight') > Len(inflight)
         /\ Last(inflight').handler = "browseEpochs")
            => LET page == Last(inflight').params.page
                   perPage == Last(inflight').params.perPage
                   v == Last(inflight').variables
               IN  /\ OneNewRequest
                   /\ v.upper = Num(page * perPage)
                   /\ v.lower = Num(page * perPage - perPage)
                   /\ page = 0 => (v.lower = Num(0 - perPage) /\ v.upper = Num(0)) ]_vars

\* A browseEpochs request for page 0 is in flight, with a negative lower bound.
C7_Witness ==
    /\ Len(inflight) = 1
    /\ inflight[1].handler = "browseEpochs"
    /\ inflight[1].params.page = 0
    /\ inflight[1].variables.lower.val < 0

Stopped == \A r \in latestEpochsReactions : ~isRunning[r]

\* C8: the two reactions are both running or both stopped, and from a state
\* in which they are stopped no step moves the watermark, counts a fetch
\* triggered by the reaction, or changes a slot other than by a request
\* resolving.
C8_OneLifecycle ==
    /\ [](isRunning[fetchReaction] = isRunning[syncReaction])
    /\ [][ Stopped =>
             /\ lastFetchedAtBlockHeight' = lastFetchedAtBlockHeight
             /\ fetchesAtHeight' <= fetchesAtHeight
             /\ inflight' = inflight =>
                   /\ browsedEpochsRawData' = browsedEpochsRawData
                   /\ latestEpochsRawData' = latestEpochsRawData ]_vars

\* Polling has run and is stopped in a state where both reactions would act:
\* the block height is past the watermark with nothing holding a fetch back,
\* and the latest block's date differs from the first epoch's.
C8_Witness ==
    /\ Stopped
    /\ lastFetchedAtBlockHeight > 0
    /\ ~skipsFetch
    /\ queryResult = "latest"
    /\ Len(latestBlocks) > 0
    /\ Len(latestEpochsRawData) > 0
    /\ latestEpochsRawData[1].lastBlockTime /= latestBlocks[1].createdAt

\* C9: a request that resolves with a result replaces its slot by exactly
\* the returned epochs, fetchLatestEpochs the latest slot and browseEpochs
\* the browsed slot; nothing of the previous content is kept.
C9_FullReplacement ==
    [][ \A i \in 1..Len(inflight), result \in DataEnv.results :
            ~result.isNull =>
                /\ fetchLatestEpochsResolved(i, result)
                      => (latestEpochsRawData' = result.epochs
                          /\ Len(latestEpochsRawData') = Len(result.epochs))
                /\ browseEpochsResolved(i, result)
                      => (browsedEpochsRawData' = result.epochs
                          /\ Len(browsedEpochsRawData') = Len(result.epochs)) ]_vars

\* Both slots hold a returned sequence, the latest slot a shorter one than
\* one it held before (it was patched to 200 only in a longer sequence).
C9_Witness ==
    /\ latestEpochsRawData = <<Epoch(5, 100)>>
    /\ browsedEpochsRawData = <<Epoch(5, 200), Epoch(4, 100)>>
    /\ queryResult = "latest"
    /\ inflight = <<>>

\* C10: from a state in which currentEpoch is not a number, a request is in
\* flight, the network-info provider is fetching or blockHeight equals the
\* watermark, no step is a fetch triggered by the reaction and none moves
\* the watermark.
C10_SkipsLeaveWatermark ==
    [][ (\/ currentEpoch.tag = "undefined"
         \/ Len(inflight) > 0
         \/ isFetching
         \/ blockHeight = lastFetchedAtBlockHeight)
            => /\ lastFetchedAtBlockHeight' = lastFetchedAtBlockHeight
               /\ fetchesAtHeight' <= fetchesAtHeight ]_vars

\* The reaction is running and sees a changed blockHeight while a
\* browseEpochs request is in flight, after an earlier fetch of its own.
C10_Witness ==
    /\ isRunning[fetchReaction]
    /\ Len(inflight) > 0
    /\ inflight[1].handler = "browseEpochs"
    /\ lastFetchedAtBlockHeight > 0
    /\ blockHeight /= lastFetchedAtBlockHeight
    /\ isNumber(currentEpoch)
    /\ ~isFetching

\* A step in which a request resolves: it is no longer in flight.
RequestResolvedStep == Len(inflight') < Len(inflight)

\* C11: the watermark is 0 initially and is written only by an evaluation of
\* the reaction that triggers a fetch, which sets it to the current
\* blockHeight; a request resolving, browseEpochs, a direct fetchLatestEpochs,
\* the sync reaction, stopping and starting polling leave it unchanged, and
\* with the watermark at blockHeight (as when polling is restarted at the
\* height already fetched) no fetch is triggered.
C11_WatermarkFrame ==
    /\ lastFetchedAtBlockHeight = 0
    /\ [][ /\ lastFetchedAtBlockHeight' /= lastFetchedAtBlockHeight
               => /\ isRunning[fetchReaction]
                  /\ ~skipsFetch
                  /\ lastFetchedAtBlockHeight' = blockHeight
                  /\ OneNewRequest
                  /\ IsLatestRequest(Last(inflight'))
           /\ (\/ RequestResolvedStep
               \/ browseEpochs(PollingEnv)
               \/ fetchLatestEpochs(PollingEnv)
               \/ syncLatestEpochWithLatestBlockDate
               \/ stopPollingLatestEpochs
               \/ startPollingLatestEpochs)
                 => lastFetchedAtBlockHeight' = lastFetchedAtBlockHeight
           /\ lastFetchedAtBlockHeight = blockHeight
                 => (fetchesAtHeight' <= fetchesAtHeight
                     /\ (startPollingLatestEpochs => inflight' = inflight)) ]_vars

\* Polling runs again, after a stop, at the height of the last fetch: that
\* fetch has resolved, blockHeight has been elsewhere and come back, and only
\* the watermark holds the reaction back.
C11_Witness ==
    /\ isRunning[fetchReaction]
    /\ lastFetchedAtBlockHeight = 1
    /\ blockHeight = 1
    /\ fetchesAtHeight = 0
    /\ inflight = <<>>
    /\ hasBeenExecutedAtLeastOnce
    /\ ~skipsFetchIgnoringWatermark

\* C12: responses are applied in the order they resolve, without a sequence
\* guard: a request that resolves with a result after a later request of the
\* same handler has already stored its own still replaces the slot, so the
\* slot holds the result of whichever response resolved last.
C12_LastWriteWins ==
    [][ \A i \in 1..Len(inflight), result \in OrderEnv.results :
            (~result.isNull /\ requestOrder.overtaken[i]) =>
                /\ fetchLatestEpochsResolved(i, result)
                      => latestEpochsRawData' = result.epochs
                /\ browseEpochsResolved(i, result)
                      => browsedEpochsRawData' = result.epochs ]_vars

\* Two fetchLatestEpochs requests overlapped; the later one resolved first
\* and the earlier one last: the latest slot holds the earlier request's
\* result.
C12_Witness ==
    /\ "fetchLatestEpochs" \in requestOrder.stale
    /\ inflight = <<>>
    /\ queryResult = "latest"
    /\ latestEpochsRawData = <<Epoch(5, 100)>>

\* The positions of the defined entries of a slot, and the position of the
\* k-th of them.
DefinedAt(raw) == {j \in 1..Len(raw) : isDefined(raw[j])}
KthDefined(raw, k) ==
    CHOOSE j \in DefinedAt(raw) : Cardinality({m \in DefinedAt(raw) : m <= j}) = k

\* overviews holds one overview per defined entry of raw, in the same order.
OverviewsOf(overviews, raw) ==
    /\ Len(overviews) = Cardinality(DefinedAt(raw))
    /\ \A k \in 1..Len(overviews) :
          /\ overviews[k].number = raw[KthDefined(raw, k)].epochNumber
          /\ overviews[k].lastBlockAt = raw[KthDefined(raw, k)].lastBlockTime

\* C13: browsedEpochs and latestEpochs hold exactly one overview per non-null
\* entry of their slot, in the slot's order: their length is the number of
\* defined entries and a null entry never yields an overview.
C13_OverviewsOfDefinedEntries ==
    /\ OverviewsOf(browsedEpochs, browsedEpochsRawData)
    /\ OverviewsOf(latestEpochs, latestEpochsRawData)

\* Both slots hold a returned sequence with a null entry, the latest slot
\* with the null first: each getter has the one overview of the defined entry.
C13_Witness ==
    /\ latestEpochsRawData = <<NullEntry, Epoch(4, 100)>>
    /\ browsedEpochsRawData = <<Epoch(5, 100), NullEntry>>
    /\ Len(latestEpochs) = 1
    /\ latestEpochs[1].number = 4
    /\ Len(browsedEpochs) = 1

\* C14: isLoadingLatestEpochsFirstTime is true in every state before the
\* gateway has executed once and in every state in which its first execution
\* is in flight; it is false once a fetchLatestEpochs request has resolved,
\* and once false it is never true again.
C14_LoadingFirstTime ==
    /\ [](~hasBeenExecutedAtLeastOnce => isLoadingLatestEpochsFirstTime)
    /\ []((inflight /= <<>> /\ ~hasBeenExecutedAtLeastOnce)
              => isLoadingLatestEpochsFirstTime)
    /\ [][ (\E i \in 1..Len(inflight), result \in PollingEnv.results :
                fetchLatestEpochsResolved(i, result))
              => ~isLoadingLatestEpochsFirstTime' ]_vars
    /\ [][ ~isLoadingLatestEpochsFirstTime => ~isLoadingLatestEpochsFirstTime' ]_vars

\* After the first fetchLatestEpochs result a second execution is in flight
\* and the getter is false.
C14_Witness ==
    /\ ~isLoadingLatestEpochsFirstTime
    /\ queryResult = "latest"
    /\ Len(inflight) > 0
    /\ IsLatestRequest(inflight[1])

\* C15: stopping polling cancels nothing: the step that stops the reactions
\* leaves the requests in flight as they are, and a fetchLatestEpochs request
\* that resolves with a result while polling is stopped still replaces the
\* latest slot.
C15_StopKeepsRequests ==
    [][ /\ (~Stopped /\ Stopped') => inflight' = inflight
        /\ Stopped =>
              \A i \in 1..Len(inflight), result \in PollingEnv.results :
                  (~result.isNull /\ fetchLatestEpochsResolved(i, result))
                      => (latestEpochsRawData' = result.epochs
                          /\ queryResult' = "latest") ]_vars

\* Polling is stopped while the fetch the reaction triggered, the only
\* request so far, is still in flight, and that fetch can resolve into the
\* latest slot.
C15_Witness ==
    /\ Stopped
    /\ Len(inflight) = 1
    /\ IsLatestRequest(inflight[1])
    /\ fetchesAtHeight = 1
    /\ lastFetchedAtBlockHeight = blockHeight
    /\ ~hasBeenExecutedAtLeastOnce
    /\ latestEpochsRawData = <<>>
    /\ ENABLED (gatewayResolves(PollingEnv) /\ latestEpochsRawData' = <<Epoch(5, 100)>>)

\* C16: the view renders 'no search result' only when the search-by-id query
\* has been executed at least once, no search is in progress and the result
\* is empty; while the query has never been executed or a search is in
\* progress it renders the loading spinner, whatever result is stored.
C16_NoResultOnlyAfterSearch ==
    /\ rendered = "NoSearchResult"
          => (searchHasBeenExecuted /\ ~isSearching /\ transactionSearchResult.isNull)
    /\ (~searchHasBeenExecuted \/ isSearching) => rendered = "LoadingSpinner"

\* A search triggered by the effect is in progress while the result of an
\* earlier one is stored: the spinner is rendered.
C16_Witness ==
    /\ isString(searchByIdTriggered)
    /\ searchHasBeenExecuted
    /\ isSearching
    /\ ~transactionSearchResult.isNull
    /\ rendered = "LoadingSpinner"

\* A step that writes into a slot while no request resolves: a patch.
PatchStep ==
    /\ inflight' = inflight
    /\ <<browsedEpochsRawData', latestEpochsRawData'>>
          /= <<browsedEpochsRawData, latestEpochsRawData>>

\* C18: syncLatestEpochWithLatestBlockDate writes nothing but the
\* lastBlockTime of the first entry of the gateway's current result, which
\* becomes the createdAt of the latest block: the other entries, the other
\* fields, the length, the other slot, the watermark and the requests in
\* flight are unchanged; it writes only with a latest block and a first entry
\* whose lastBlockTime differs, so that a second run writes nothing.
C18_SyncFrame ==
    [][ /\ syncLatestEpochWithLatestBlockDate => PatchStep
        /\ PatchStep =>
              /\ isRunning[syncReaction]
              /\ Len(latestBlocks) > 0
              /\ Len(resultEpochs) > 0
              /\ isDefined(resultEpochs[1])
              /\ resultEpochs[1].lastBlockTime /= latestBlocks[1].createdAt
              /\ queryResult' = queryResult
              /\ Len(resultEpochs') = Len(resultEpochs)
              /\ \A j \in 2..Len(resultEpochs) : resultEpochs'[j] = resultEpochs[j]
              /\ resultEpochs'[1].epochNumber = resultEpochs[1].epochNumber
              /\ resultEpochs'[1].isNull = resultEpochs[1].isNull
              /\ resultEpochs'[1].lastBlockTime = latestBlocks[1].createdAt
              /\ queryResult = "latest" => browsedEpochsRawData' = browsedEpochsRawData
              /\ queryResult = "browsed" => latestEpochsRawData' = latestEpochsRawData
              /\ lastFetchedAtBlockHeight' = lastFetchedAtBlockHeight
              /\ fetchesAtHeight' = fetchesAtHeight
              /\ UNCHANGED <<providerVars, isRunning, queryFlags>> ]_vars

\* The first of two entries of the latest slot has been patched to the
\* latest block's date; the second entry is as the gateway returned it.
C18_Witness ==
    /\ isRunning[syncReaction]
    /\ queryResult = "latest"
    /\ latestEpochsRawData = <<Epoch(5, 100), Epoch(4, 100)>>
    /\ Len(latestBlocks) > 0
    /\ latestBlocks[1] = Block(100)

\* C19: the watermark starts at 0 and a step either keeps it or sets it to
\* the blockHeight the provider last reported, so that it is always 0 or a
\* height reported earlier; and while blockHeight is 0 and the watermark is
\* still 0 the reaction triggers no fetch.
C19_WatermarkIsReportedHeight ==
    /\ lastFetchedAtBlockHeight = 0
    /\ [](lastFetchedAtBlockHeight \in {0} \cup PollingEnv.heights)
    /\ [][ /\ lastFetchedAtBlockHeight' \in {lastFetchedAtBlockHeight, blockHeight}
           /\ (blockHeight = 0 /\ lastFetchedAtBlockHeight = 0)
                 => /\ fetchesAtHeight' <= fetchesAtHeight
                    /\ lastFetchedAtBlockHeight' = 0
                    /\ ~TriggersOneFetch ]_vars

\* The watermark is a height the provider reported before the one it reports
\* now, and the fetch made at that height has resolved.
C19_Witness ==
    /\ lastFetchedAtBlockHeight = 2
    /\ blockHeight = 1
    /\ fetchesAtHeight = 0
    /\ inflight = <<>>
    /\ queryResult = "latest"

\* From some point on polling is started, blockHeight stays at h, currentEpoch
\* is a number and the network-info provider is not fetching.
Settled(h) ==
    /\ isRunning[fetchReaction]
    /\ blockHeight = h
    /\ isNumber(currentEpoch)
    /\ ~isFetching

\* C17 as stated: when blockHeight settles at h with polling started,
\* currentEpoch a number and the provider no longer fetching, then, every
\* request in flight resolving and the reaction being re-evaluated fairly,
\* the watermark eventually is h.
C17_Original ==
    \A h \in LiveEnv.heights :
        <>[]Settled(h) => <>[](lastFetchedAtBlockHeight = h)

\* C17, amended: the same, in the runs in which the gateway is idle again
\* and again (requests of browseEpochs and of fetchLatestEpochs do not
\* overlap forever).
C17_ChangeNotLost ==
    \A h \in LiveEnv.heights :
        (<>[]Settled(h) /\ []<>(inflight = <<>>))
            => <>[](lastFetchedAtBlockHeight = h)

\* blockHeight has come back to 0 after a fetch at another height, and the
\* reaction has fetched for it: the watermark is again 0 and that fetch has
\* resolved.
C17_Witness ==
    /\ Settled(0)
    /\ lastFetchedAtBlockHeight = 0
    /\ fetchesAtHeight = 1
    /\ inflight = <<>>
    /\ queryResult = "latest"

====
